---- MODULE Spec2Model ----
(***************************************************************************)
(* splitmod: include()/optional() execute a source fragment into a         *)
(* caller-owned scope by hooking the interpreter's import chain.           *)
(*                                                                         *)
(* The model is a call-stack machine.  One step runs a handler up to the   *)
(* next call into the import system (or the next fragment statement), so   *)
(* that nested include() calls, the order of resolver sessions and the     *)
(* exit paths of every call are visible as states.                         *)
(***************************************************************************)
EXTENDS Integers, Sequences, FiniteSets, TLC

\* ------------------------------------------------------------------ bounds
MaxCalls == 2          \* include()/optional() calls made by the root file

\* ------------------------------------------------------------ value space
Unbound == "<unbound>"                 \* a name with no binding
NoFile  == "<nofile>"
NoDir   == "<nodir>"
NoExc   == "none"
StringFile == "<string>"               \* co_filename of code run by exec(text, scope)
Names   == {"DEBUG", "X", "Y", "__file__"}
CurDir  == <<".">>                     \* the "." path segment

Main == <<"__main__">>                 \* globals of the root file
Dict == <<"<dict>">>                   \* a mapping the caller passes as scope=
NoNs == <<>>                           \* scope=None

EmptyVars == [n \in Names |-> Unbound]
EmptyNs   == [vars |-> EmptyVars, files |-> <<>>, hasFiles |-> FALSE]

\* Exception classes that derive from Exception (the others derive from
\* BaseException only).
ExceptionKinds == {"ModuleNotFoundError", "OSError", "NameError", "Exception"}
BaseOnlyKinds  == {"SystemExit"}

\* ------------------------------------------------------ fragment statements
Bind(n, v)     == [op |-> "bind", name |-> n, val |-> v, res |-> <<>>, isPath |-> FALSE, opt |-> FALSE]
Copy(n, m)     == [op |-> "copy", name |-> n, val |-> m, res |-> <<>>, isPath |-> FALSE, opt |-> FALSE]
Raise(kind)    == [op |-> "raise", name |-> "", val |-> kind, res |-> <<>>, isPath |-> FALSE, opt |-> FALSE]
Incl(segs, o)  == [op |-> "include", name |-> "", val |-> "", res |-> segs, isPath |-> FALSE, opt |-> o]
Import(name)   == [op |-> "import", name |-> "", val |-> "", res |-> <<name>>, isPath |-> FALSE, opt |-> FALSE]

\* --------------------------------------------------------------- resources
\* A resource is the text handed to include(): segments separated by "/",
\* each segment a sequence of "."-separated components.
Res(segs)     == [isPath |-> FALSE, segs |-> segs]   \* a str
PathObj(segs) == [isPath |-> TRUE, segs |-> segs]    \* a pathlib.Path
RA       == <<CurDir, <<"a", "py">>>>          \* "./a.py"
RB       == <<CurDir, <<"b", "py">>>>          \* "./b.py"
RN       == <<CurDir, <<"n", "py">>>>          \* "./n.py"
RM       == <<CurDir, <<"m", "py">>>>          \* "./m.py"
RBad     == <<CurDir, <<"bad", "py">>>>        \* "./bad.py"
RExit    == <<CurDir, <<"exit", "py">>>>       \* "./exit.py"
RLocked  == <<CurDir, <<"locked", "py">>>>     \* "./locked.py"
RMissing == <<CurDir, <<"missing", "py">>>>    \* "./missing.py"
ROs      == << <<"os">> >>                     \* Path("os")
ROsPy    == <<CurDir, <<"os", "py">>>>         \* "./os.py"
RPkgC    == <<<<"pkg">>, <<"c", "py">>>>       \* "pkg/c.py"
RPkgMiss == <<<<"pkg">>, <<"missing", "py">>>> \* "pkg/missing.py"
RNoDir   == <<<<"nodir">>, <<"missing", "py">>>> \* "nodir/missing.py"
RDotC    == << <<"pkg", "c">> >>               \* "pkg.c"
RDotMiss == << <<"missing">> >>                \* "missing"
RU       == <<CurDir, <<"u", "py">>>>          \* "./u.py"
RDotU    == << <<"u">> >>                      \* "u"
RDotX    == << <<"pkg", "x">> >>               \* "pkg.x"
RC       == <<CurDir, <<"c", "py">>>>          \* "./c.py"

\* ------------------------------------------------------------- file system
\* root/    main.py a.py b.py n.py m.py u.py bad.py exit.py locked.py pkg/
\* root/pkg __init__.py c.py x.py
\* lib/     os.py          (imported at interpreter start-up)
\* work/                   (an empty directory the process may run in)
Files == {"root/a.py", "root/b.py", "root/n.py", "root/m.py", "root/bad.py", "root/exit.py",
          "root/locked.py", "root/pkg/__init__.py", "root/pkg/c.py", "lib/os.py",
          "root/u.py", "root/pkg/x.py"}
FS ==
  [f \in Files |->
    CASE f = "root/a.py"   -> [dir |-> "root", tail |-> "a", suffix |-> "py", readable |-> TRUE,
                               code |-> <<Bind("DEBUG", "true"), Bind("X", "a")>>]
      [] f = "root/b.py"   -> [dir |-> "root", tail |-> "b", suffix |-> "py", readable |-> TRUE,
                               code |-> <<Bind("DEBUG", "false")>>]
      [] f = "root/n.py"   -> [dir |-> "root", tail |-> "n", suffix |-> "py", readable |-> TRUE,
                               code |-> <<Bind("X", "n"), Incl(RA, FALSE), Copy("Y", "DEBUG")>>]
      [] f = "root/m.py"   -> [dir |-> "root", tail |-> "m", suffix |-> "py", readable |-> TRUE,
                               code |-> <<Bind("Y", "m"), Incl(RBad, TRUE), Incl(RExit, FALSE)>>]
      [] f = "root/u.py"   -> [dir |-> "root", tail |-> "u", suffix |-> "py", readable |-> TRUE,
                               code |-> <<Import(<<"b">>), Bind("Y", "u")>>]
      [] f = "root/pkg/x.py" -> [dir |-> "root/pkg", tail |-> "x", suffix |-> "py", readable |-> TRUE,
                               code |-> <<Bind("X", "x"), Incl(RC, FALSE)>>]
      [] f = "root/bad.py" -> [dir |-> "root", tail |-> "bad", suffix |-> "py", readable |-> TRUE,
                               code |-> <<Bind("X", "bad"), Raise("Exception"), Bind("Y", "bad")>>]
      [] f = "root/exit.py" -> [dir |-> "root", tail |-> "exit", suffix |-> "py", readable |-> TRUE,
                               code |-> <<Bind("X", "exit"), Raise("SystemExit")>>]
      [] f = "root/locked.py" -> [dir |-> "root", tail |-> "locked", suffix |-> "py", readable |-> FALSE,
                               code |-> <<Bind("X", "locked")>>]
      [] f = "root/pkg/__init__.py" -> [dir |-> "root/pkg", tail |-> "__init__", suffix |-> "py", readable |-> TRUE,
                               code |-> <<Bind("Y", "init")>>]
      [] f = "root/pkg/c.py" -> [dir |-> "root/pkg", tail |-> "c", suffix |-> "py", readable |-> TRUE,
                               code |-> <<Bind("DEBUG", "c")>>]
      [] OTHER             -> [dir |-> "lib", tail |-> "os", suffix |-> "py", readable |-> TRUE,
                               code |-> <<Bind("Y", "os")>>]]

SubDir(dir, tail) == IF dir = "root" /\ tail = "pkg" THEN "root/pkg" ELSE NoDir
MainFile == "root/main.py"
MainDir  == "root"

Named(entry, dir, tail, suffix) ==
  entry.dir = dir /\ entry.tail = tail /\ entry.suffix = suffix
FilesAt(dir, tail, suffix) == {f \in Files : Named(FS[f], dir, tail, suffix)}
OneOf(files) == IF files = {} THEN NoFile ELSE CHOOSE f \in files : TRUE
FindIn(dir, tail, suffix) == OneOf(FilesAt(dir, tail, suffix))

\* Path(co_filename).parent
DirOf(file) ==
  IF file = StringFile THEN "." ELSE IF file = MainFile THEN MainDir ELSE FS[file].dir

\* -------------------------------------------------------- pathlib / strings
Last(s)  == s[Len(s)]
Front(s) == SubSeq(s, 1, Len(s) - 1)

RECURSIVE Flatten(_)
Flatten(parts) == IF parts = <<>> THEN <<>> ELSE Head(parts) \o Flatten(Tail(parts))

\* isinstance(resource, Path) or "/" in resource
IsPathStyle(res) == res.isPath \/ Len(res.segs) > 1
\* Path(resource).parts : "." segments are dropped
Parts(res)   == SelectSeq(res.segs, LAMBDA s : s # CurDir)
\* ".".join(resource.parts)
PathModKey(res) == Flatten(Parts(res))
\* resource.suffix / resource.stem
PathSuffix(res) == IF Len(Last(Parts(res))) > 1 THEN Last(Last(Parts(res))) ELSE ""
PathStem(res)   == IF Len(Last(Parts(res))) > 1 THEN Front(Last(Parts(res))) ELSE Last(Parts(res))
\* ".".join(resource.parts[0:-1]).lstrip(".")
PathParent(res) == Flatten(Front(Parts(res)))
\* f"{parent}.{resource.stem}".lstrip(".")
PathTarget(res) == PathParent(res) \o PathStem(res)
\* str(resource) for a dotted name, and ".".join(resource.split(".")[0:-1])
DottedName(res)   == Head(res.segs)
DottedParent(res) == Front(Head(res.segs))


\* ------------------------------------------------------------------- state
VARIABLES
  ns,          \* namespaces (dicts): module globals and the caller's mapping
  modules,     \* sys.modules: dotted name -> module attributes
  loaders,     \* SplitModuleLoader objects, by identity (index)
  meta_path,   \* sys.meta_path
  path_hooks,  \* sys.path_hooks
  sys_path,    \* sys.path
  cwd,         \* the directory "." denotes
  stack,       \* call stack: include() / import_module() / exec_module() frames
  exc,         \* the exception in flight, or NoExc
  calls,       \* include() calls made by the root file so far
  nhooks,      \* path-hook closures created so far (their identities)
  obs,         \* the root file's latest call and the state it started from
  inl          \* the root namespace obtained by running the included text in place

vars == <<ns, modules, loaders, meta_path, path_hooks, sys_path, cwd, stack,
          exc, calls, nhooks, obs, inl>>

HostLoader == 0                        \* the module's own SourceFileLoader
PathFinderEntry == [id |-> 0, kind |-> "PathFinder", dir |-> NoDir, suffix |-> "", loader |-> HostLoader]
DefaultHook     == [id |-> 0, root |-> NoDir]

NoFrame ==
  [k |-> "none", res |-> Res(<<>>), opt |-> FALSE, sarg |-> NoNs, scope |-> NoNs,
   ph |-> "", mod |-> <<>>, saved |-> HostLoader, was |-> HostLoader, fid |-> 0, hid |-> 0,
   cns |-> NoNs, cfile |-> NoFile, name |-> <<>>, file |-> NoFile, pc |-> 0,
   tns |-> NoNs, ld |-> HostLoader, fresh |-> FALSE, lst |-> <<>>,
   preMeta |-> <<>>, preHooks |-> <<>>, prePath |-> <<>>]

IncludeFrame(res, opt, sarg, cns, cfile) ==
  [NoFrame EXCEPT !.k = "include", !.res = res, !.opt = opt, !.sarg = sarg,
                  !.cns = cns, !.cfile = cfile, !.ph = "start",
                  !.preMeta = meta_path, !.preHooks = path_hooks, !.prePath = sys_path]
ImportFrame(name) == [NoFrame EXCEPT !.k = "import", !.name = name, !.ph = "start"]
ExecFrame(file, tns, ld) ==
  [NoFrame EXCEPT !.k = "exec", !.file = file, !.tns = tns, !.ld = ld, !.pc = 0]

Top      == stack[Len(stack)]
Rest     == SubSeq(stack, 1, Len(stack) - 1)
Push(f)  == Append(stack, f)
SetTop(f) == [stack EXCEPT ![Len(stack)] = f]
TopIs(k) == stack # <<>> /\ Top.k = k

\* list.remove(x): drops the first entry equal to x
RECURSIVE RemoveFirst(_, _)
RemoveFirst(s, x) ==
  IF s = <<>> THEN <<>>
  ELSE IF Head(s) = x THEN Tail(s) ELSE <<Head(s)>> \o RemoveFirst(Tail(s), x)
RECURSIVE RemoveId(_, _)
RemoveId(s, id) ==
  IF s = <<>> THEN <<>>
  ELSE IF Head(s).id = id THEN Tail(s) ELSE <<Head(s)>> \o RemoveId(Tail(s), id)

\* bool(mapping)
NsTruthy(n) == n.hasFiles \/ \E x \in Names : n.vars[x] # Unbound

\* dict.update(vars(module))
UpdateFrom(dst, src) ==
  [vars     |-> [x \in Names |-> IF src.vars[x] # Unbound THEN src.vars[x] ELSE dst.vars[x]],
   files    |-> IF src.hasFiles THEN src.files ELSE dst.files,
   hasFiles |-> dst.hasFiles \/ src.hasFiles]

ResolveDir(d) == IF d = "." THEN cwd ELSE d

\* ---------------------------------------------------- the host's finders
NoSpec == [found |-> FALSE, origin |-> NoFile, pkgDir |-> NoDir, loader |-> HostLoader, setPath |-> FALSE]

\* importlib.machinery.FileFinder(dir, (loader, [suffix])).find_spec(fullname):
\* a package directory holding __init__<suffix> first, then <tail><suffix>.
FileFinderFind(dir, suffix, fullname) ==
  LET d    == ResolveDir(dir)
      tail == Last(fullname)
      pkg  == SubDir(d, tail)
      init == IF pkg = NoDir THEN NoFile ELSE FindIn(pkg, "__init__", suffix)
      file == FindIn(d, tail, suffix)
  IN  IF init # NoFile THEN [NoSpec EXCEPT !.found = TRUE, !.origin = init, !.pkgDir = pkg]
      ELSE IF file # NoFile THEN [NoSpec EXCEPT !.found = TRUE, !.origin = file]
      ELSE NoSpec

\* importlib.machinery.PathFinder.find_spec(fullname, path): the entries of
\* path (sys.path when path is None) in order.  Every directory of this file
\* system is served by a FileFinder for ".py" whichever entry of sys.path_hooks
\* answers for it, so sys.path_importer_cache is not part of the state.
RECURSIVE PathFinderFind(_, _)
PathFinderFind(fullname, entries) ==
  IF entries = <<>> THEN NoSpec
  ELSE LET s == FileFinderFind(Head(entries), "py", fullname)
       IN  IF s.found THEN s ELSE PathFinderFind(fullname, Tail(entries))

SearchPath(fullname) ==
  IF Len(fullname) > 1 THEN <<modules[Front(fullname)].pkgDir>> ELSE sys_path


\* _find_spec(name, path): the finders of sys.meta_path in order.
\*   SplitFileFinder.find_spec   -> its FileFinder, whose loader "class" is the
\*                                  SplitModuleLoader (called with the file path)
\*   SplitModuleFinder.find_spec -> None while its loader is loading, otherwise
\*                                  PathFinder's spec with the loader replaced
RECURSIVE MetaFind(_, _)
MetaFind(finders, fullname) ==
  IF finders = <<>> THEN NoSpec
  ELSE LET f == Head(finders)
           s == CASE f.kind = "SplitFileFinder" ->
                       LET r == FileFinderFind(f.dir, f.suffix, fullname)
                       IN  IF r.found THEN [r EXCEPT !.loader = f.loader, !.setPath = TRUE] ELSE r
                  [] f.kind = "SplitModuleFinder" ->
                       IF loaders[f.loader].is_loading THEN NoSpec
                       ELSE LET r == PathFinderFind(fullname, SearchPath(fullname))
                            IN  IF r.found THEN [r EXCEPT !.loader = f.loader] ELSE r
                  [] OTHER -> PathFinderFind(fullname, SearchPath(fullname))
       IN  IF s.found THEN s ELSE MetaFind(Tail(finders), fullname)

\* SplitModuleLoader(scope)
NewLoader(scope) == [scope |-> scope, is_loading |-> FALSE, path |-> NoFile]

\* ------------------------------------------------------------ initial state
OsNs   == [EmptyNs EXCEPT !.vars = [EmptyVars EXCEPT !["Y"] = "os", !["__file__"] = "lib/os.py"]]
MainNs == [EmptyNs EXCEPT !.vars = [EmptyVars EXCEPT !["__file__"] = MainFile]]
DictNs == [EmptyNs EXCEPT !.vars = [EmptyVars EXCEPT !["X"] = "d"]]
HostModule(dir) == [specLoader |-> HostLoader, loader |-> HostLoader, pkgDir |-> dir]

Init ==
  /\ \E d \in {EmptyNs, DictNs} :
       ns = (Main :> MainNs) @@ (Dict :> d) @@ (<<"os">> :> OsNs)
  /\ modules = (Main :> HostModule(NoDir)) @@ (<<"os">> :> HostModule(NoDir))
  /\ loaders = <<>>
  /\ meta_path = <<PathFinderEntry>>
  /\ path_hooks = <<DefaultHook>>
  /\ sys_path \in {<<"lib">>, <<"root", "lib">>}
  /\ cwd \in {"root", "work"}
  /\ stack = <<>>
  /\ exc = NoExc
  /\ calls = 0
  /\ nhooks = 0
  /\ obs = [res |-> Res(<<>>), opt |-> FALSE, sarg |-> NoNs, ns |-> ns, prev |-> Res(<<>>)]
  /\ inl = [ok |-> TRUE, vars |-> MainNs.vars]

\* ------------------------------------------------------------------ include
\* scope = scope or frame.f_globals
ScopeOf(f) == IF f.sarg # NoNs /\ NsTruthy(ns[f.sarg]) THEN f.sarg ELSE f.cns
\* root = Path(frame.f_code.co_filename).parent
RootOf(f)  == DirOf(f.cfile)

\* sys.meta_path.insert(0, self) for a finder created with a new loader
FileFinderEntry(id, dir, suffix) ==
  [id |-> id, kind |-> "SplitFileFinder", dir |-> dir, suffix |-> suffix, loader |-> id]
ModuleFinderEntry(id) ==
  [id |-> id, kind |-> "SplitModuleFinder", dir |-> NoDir, suffix |-> "", loader |-> id]
EnterAtEnd(finder) == meta_path \o <<finder>>
Enter(finder) == <<finder>> \o meta_path
\* sys.meta_path.remove(self)
Exit(id) == RemoveId(meta_path, id)

\* include(), lines 217-241 / 254-261: scope, use_loaded, and either the import
\* of the ancestor package or the session for the fragment itself.
IncludeStart ==
  /\ TopIs("include") /\ Top.ph = "start" /\ exc = NoExc
  /\ LET f      == Top
         scope  == ScopeOf(f)
         isPath == IsPathStyle(f.res)
         key    == IF isPath THEN PathModKey(f.res) ELSE DottedName(f.res)
         parent == IF isPath THEN PathParent(f.res) ELSE DottedParent(f.res)
         target == IF isPath THEN PathTarget(f.res) ELSE DottedName(f.res)
         id     == Len(loaders) + 1
     IN
     IF key \in DOMAIN modules
     THEN \* use_loaded(): scope.update(vars(module)); return
          /\ ns' = [ns EXCEPT ![scope] = UpdateFrom(ns[scope], ns[key])]
          /\ stack' = Rest
          /\ UNCHANGED <<modules, loaders, meta_path, path_hooks, sys_path, nhooks>>
     ELSE IF parent # <<>>
     THEN \* import_module(parent), for a path inside _load_file_path_as_module(root)
          /\ stack' = Append(SetTop([f EXCEPT !.scope = scope, !.ph = "parent",
                                              !.hid = IF isPath THEN nhooks + 1 ELSE 0]),
                             ImportFrame(parent))
          /\ IF isPath
             THEN /\ path_hooks' = <<[id |-> nhooks + 1, root |-> RootOf(f)]>> \o path_hooks
                  /\ sys_path' = Append(sys_path, RootOf(f))
                  /\ nhooks' = nhooks + 1
             ELSE UNCHANGED <<path_hooks, sys_path, nhooks>>
          /\ UNCHANGED <<ns, modules, loaders, meta_path>>
     ELSE \* with SplitFileFinder(...) / SplitModuleFinder(...): import_module(target)
          /\ loaders' = Append(loaders, NewLoader(scope))
          /\ meta_path' = Enter(IF isPath THEN FileFinderEntry(id, RootOf(f), PathSuffix(f.res))
                                          ELSE ModuleFinderEntry(id))
          /\ stack' = Append(SetTop([f EXCEPT !.scope = scope, !.ph = "target", !.fid = id]),
                             ImportFrame(target))
          /\ UNCHANGED <<ns, modules, path_hooks, sys_path, nhooks>>
  /\ UNCHANGED <<cwd, exc, calls, obs, inl>>

\* include(), lines 244-252 / 262-268: the ancestor package is imported; swap
\* its loader, leave _load_file_path_as_module, open the session for the
\* fragment and import it.
IncludeParentDone ==
  /\ TopIs("include") /\ Top.ph = "parent" /\ exc = NoExc
  /\ LET f      == Top
         isPath == IsPathStyle(f.res)
         parent == IF isPath THEN PathParent(f.res) ELSE DottedParent(f.res)
         target == IF isPath THEN PathTarget(f.res) ELSE DottedName(f.res)
         swapId == Len(loaders) + 1
         id     == Len(loaders) + 2
     IN
     /\ loaders' = loaders \o <<NewLoader(f.scope), NewLoader(f.scope)>>
     /\ modules' = [modules EXCEPT ![parent] = [@ EXCEPT !.specLoader = swapId, !.loader = swapId]]
     /\ IF isPath
        THEN /\ path_hooks' = RemoveId(path_hooks, f.hid)
             /\ sys_path' = RemoveFirst(sys_path, RootOf(f))
        ELSE UNCHANGED <<path_hooks, sys_path>>
     /\ meta_path' = Enter(IF isPath THEN FileFinderEntry(id, RootOf(f), PathSuffix(f.res))
                                     ELSE ModuleFinderEntry(id))
     /\ stack' = Append(SetTop([f EXCEPT !.ph = "target", !.fid = id, !.mod = parent,
                                         !.saved = modules[parent].specLoader,
                                         !.was = modules[parent].loader]),
                        ImportFrame(target))
  /\ UNCHANGED <<ns, cwd, exc, calls, nhooks, obs, inl>>

\* finally: if mod and loader: mod.__spec__.loader = loader
Restore(f) ==
  IF f.mod # <<>> /\ f.mod \in DOMAIN modules
  THEN [modules EXCEPT ![f.mod] = [@ EXCEPT !.specLoader = f.saved]]
  ELSE modules

\* include(), the normal exit: SplitFinder.__exit__, then the finally clause.
IncludeReturn ==
  /\ TopIs("include") /\ Top.ph = "target" /\ exc = NoExc
  /\ meta_path' = Exit(Top.fid)
  /\ modules' = Restore(Top)
  /\ stack' = Rest
  /\ UNCHANGED <<ns, loaders, path_hooks, sys_path, cwd, exc, calls, nhooks, obs, inl>>

\* except Exception: if optional: return; raise
AfterExceptNotFoundOnly(e, optional) ==
  IF e = "ModuleNotFoundError" /\ optional THEN NoExc ELSE e
AfterExcept(e, optional) ==
  IF e \in ExceptionKinds /\ optional THEN NoExc ELSE e

\* include(), an exception arrives from import_module(): __exit__ of the open
\* with-block (the generator of _load_file_path_as_module has no try/finally
\* around its yield, so nothing after the yield runs), then
\* the except clause, then the finally clause.
IncludeFailRollback ==
  /\ TopIs("include") /\ exc # NoExc
  /\ meta_path' = IF Top.ph = "target" THEN Exit(Top.fid) ELSE meta_path
  /\ modules' = Restore(Top)
  /\ exc' = AfterExcept(exc, Top.opt)
  /\ stack' = Rest
  /\ ns' = IF Top.opt /\ Len(stack) = 1
           THEN [n \in DOMAIN ns |-> IF n \in DOMAIN obs.ns THEN obs.ns[n] ELSE ns[n]]
           ELSE ns
  /\ UNCHANGED <<loaders, path_hooks, sys_path, cwd, calls, nhooks, obs, inl>>
IncludeFail ==
  /\ TopIs("include") /\ exc # NoExc
  /\ meta_path' = IF Top.ph = "target" THEN Exit(Top.fid) ELSE meta_path
  /\ modules' = Restore(Top)
  /\ exc' = AfterExcept(exc, Top.opt)
  /\ stack' = Rest
  /\ UNCHANGED <<ns, loaders, path_hooks, sys_path, cwd, calls, nhooks, obs, inl>>


\* ------------------------------------------------ import_module (the host)
Without(f, k) == [x \in DOMAIN f \ {k} |-> f[x]]

\* A new module object: module_from_spec() sets its attributes from the spec.
NewModuleNs(origin) == [EmptyNs EXCEPT !.vars = [EmptyVars EXCEPT !["__file__"] = origin]]

\* importlib._bootstrap._find_and_load: the cached module if there is one,
\* the parent package first, then the finders, then the loader's exec_module.
\* (Binding the submodule as an attribute of its parent package touches a name
\* outside Names and is left out.)
ImportStep ==
  /\ TopIs("import") /\ exc = NoExc
  /\ LET f    == Top
         name == f.name
     IN
     IF f.ph = "exec" \/ name \in DOMAIN modules
     THEN /\ stack' = Rest
          /\ UNCHANGED <<ns, modules, loaders, exc>>
     ELSE IF f.ph = "start" /\ Len(name) > 1 /\ Front(name) \notin DOMAIN modules
     THEN /\ stack' = Append(SetTop([f EXCEPT !.ph = "parent"]), ImportFrame(Front(name)))
          /\ UNCHANGED <<ns, modules, loaders, exc>>
     ELSE IF Len(name) > 1 /\ modules[Front(name)].pkgDir = NoDir
     THEN \* the parent is not a package
          /\ exc' = "ModuleNotFoundError"
          /\ stack' = Rest
          /\ UNCHANGED <<ns, modules, loaders>>
     ELSE \E spec \in {MetaFind(meta_path, name)} :
          IF ~spec.found
          THEN /\ exc' = "ModuleNotFoundError"
               /\ stack' = Rest
               /\ UNCHANGED <<ns, modules, loaders>>
          ELSE /\ loaders' = IF spec.setPath
                             THEN [loaders EXCEPT ![spec.loader].path = spec.origin]
                             ELSE loaders
               /\ modules' = (name :> [specLoader |-> spec.loader, loader |-> spec.loader,
                                       pkgDir |-> spec.pkgDir]) @@ modules
               /\ ns' = (name :> NewModuleNs(spec.origin)) @@ ns
               /\ stack' = Append(SetTop([f EXCEPT !.ph = "exec"]),
                                  ExecFrame(spec.origin,
                                            IF spec.loader = HostLoader THEN name
                                            ELSE loaders[spec.loader].scope,
                                            spec.loader))
               /\ UNCHANGED exc
  /\ UNCHANGED <<meta_path, path_hooks, sys_path, cwd, calls, nhooks, obs, inl>>

\* _load_unlocked: a module whose execution failed is dropped from sys.modules.
ImportFail ==
  /\ TopIs("import") /\ exc # NoExc
  /\ IF Top.ph = "exec"
     THEN /\ modules' = Without(modules, Top.name)
          /\ ns' = Without(ns, Top.name)
     ELSE UNCHANGED <<modules, ns>>
  /\ stack' = Rest
  /\ UNCHANGED <<loaders, meta_path, path_hooks, sys_path, cwd, exc, calls, nhooks, obs, inl>>

\* -------------------------------------------------------------- exec_module
\* SplitModuleLoader.exec_module up to exec(): the file to run, is_loading,
\* the include history (the scope's list, or a new list that is stored in the
\* scope only at the end), open().  The host's SourceFileLoader reads the file
\* and runs it in the module's own namespace.
ExecEnter ==
  /\ TopIs("exec") /\ Top.pc = 0 /\ exc = NoExc
  /\ LET f    == Top
         file == IF f.ld # HostLoader /\ loaders[f.ld].path # NoFile
                 THEN loaders[f.ld].path ELSE f.file
         has  == ns[f.tns].hasFiles
     IN
     /\ loaders' = IF f.ld = HostLoader THEN loaders
                   ELSE [loaders EXCEPT ![f.ld].is_loading = TRUE]
     /\ ns' = IF f.ld # HostLoader /\ has
              THEN [ns EXCEPT ![f.tns].files = Append(@, file)]
              ELSE ns
     /\ exc' = IF FS[file].readable THEN NoExc ELSE "OSError"
     /\ stack' = SetTop([f EXCEPT !.file = file, !.pc = 1,
                                  !.fresh = (f.ld # HostLoader /\ ~has),
                                  !.lst = IF f.ld # HostLoader /\ ~has THEN <<file>> ELSE <<>>])
  /\ UNCHANGED <<modules, meta_path, path_hooks, sys_path, cwd, calls, nhooks, obs, inl>>

\* One top-level statement of the text being executed.
ExecStmt ==
  /\ TopIs("exec") /\ Top.pc \in 1..Len(FS[Top.file].code) /\ exc = NoExc
  /\ LET f  == Top
         st == FS[f.file].code[f.pc]
         nx == [f EXCEPT !.pc = f.pc + 1]
     IN
     CASE st.op = "bind" ->
            /\ ns' = [ns EXCEPT ![f.tns].vars[st.name] = st.val]
            /\ stack' = SetTop(nx)
            /\ UNCHANGED exc
       [] st.op = "copy" ->
            IF ns[f.tns].vars[st.val] = Unbound
            THEN /\ exc' = "NameError"
                 /\ UNCHANGED <<ns, stack>>
            ELSE /\ ns' = [ns EXCEPT ![f.tns].vars[st.name] = ns[f.tns].vars[st.val]]
                 /\ stack' = SetTop(nx)
                 /\ UNCHANGED exc
       [] st.op = "raise" ->
            /\ exc' = st.val
            /\ UNCHANGED <<ns, stack>>
       [] st.op = "import" ->
            \* import name: the request goes through sys.meta_path
            /\ stack' = Append(SetTop(nx), ImportFrame(Head(st.res)))
            /\ UNCHANGED <<ns, exc>>
       [] OTHER ->
            \* include(resource) with the default scope; text run by exec()
            \* is compiled with the file name "<string>"
            /\ stack' = Append(SetTop(nx),
                               IncludeFrame([isPath |-> st.isPath, segs |-> st.res], st.opt, NoNs, f.tns,
                                            IF f.ld = HostLoader THEN f.file ELSE StringFile))
            /\ UNCHANGED <<ns, exc>>
  /\ UNCHANGED <<modules, loaders, meta_path, path_hooks, sys_path, cwd, calls, nhooks, obs, inl>>

\* The text ran to its end: is_loading = False and
\* scope["__included_files__"] = stack.
ExecExit ==
  /\ TopIs("exec") /\ Top.pc = Len(FS[Top.file].code) + 1 /\ exc = NoExc
  /\ loaders' = IF Top.ld = HostLoader THEN loaders
                ELSE [loaders EXCEPT ![Top.ld].is_loading = FALSE]
  /\ ns' = IF Top.fresh
           THEN [ns EXCEPT ![Top.tns].files = Top.lst, ![Top.tns].hasFiles = TRUE]
           ELSE ns
  /\ stack' = Rest
  /\ UNCHANGED <<modules, meta_path, path_hooks, sys_path, cwd, exc, calls, nhooks, obs, inl>>

\* An exception leaves exec_module: nothing after exec() runs.
ExecFail ==
  /\ TopIs("exec") /\ exc # NoExc
  /\ stack' = Rest
  /\ UNCHANGED <<ns, modules, loaders, meta_path, path_hooks, sys_path, cwd, exc, calls, nhooks, obs, inl>>

\* ----------------------------------------------- the text executed in place
\* The artifact a reference names: a path relative to the directory of the
\* including file, a dotted name through the host's unmodified resolution.
RECURSIVE Descend(_, _)
Descend(dir, parts) ==
  IF parts = <<>> \/ dir = NoDir THEN dir
  ELSE Descend(IF Len(Head(parts)) = 1 THEN SubDir(dir, Head(parts)[1]) ELSE NoDir, Tail(parts))
FileNamed(dir, part) ==
  IF Len(part) = 2 THEN FindIn(dir, part[1], part[2])
  ELSE IF Len(part) = 1 THEN FindIn(dir, part[1], "") ELSE NoFile
RECURSIVE ResolveHost(_)
ResolveHost(name) ==
  IF Len(name) = 1 THEN PathFinderFind(name, sys_path)
  ELSE LET p == ResolveHost(Front(name))
       IN  IF p.pkgDir = NoDir THEN NoSpec ELSE FileFinderFind(p.pkgDir, "py", name)
NamedFile(res, baseDir) ==
  IF IsPathStyle(res)
  THEN LET d == Descend(baseDir, Front(Parts(res)))
       IN  IF d = NoDir THEN NoFile ELSE FileNamed(d, Last(Parts(res)))
  ELSE ResolveHost(DottedName(res)).origin

\* Running the statements of file, from statement pc on, directly against
\* vars; a nested include() is replaced by the text it names.
RECURSIVE InPlace(_, _, _)
InPlace(v, file, pc) ==
  IF ~v.ok \/ pc > Len(FS[file].code) THEN v
  ELSE LET st == FS[file].code[pc] IN
       CASE st.op = "bind" ->
              InPlace([v EXCEPT !.vars[st.name] = st.val], file, pc + 1)
         [] st.op = "copy" ->
              IF v.vars[st.val] = Unbound THEN [v EXCEPT !.ok = FALSE]
              ELSE InPlace([v EXCEPT !.vars[st.name] = v.vars[st.val]], file, pc + 1)
         [] st.op = "raise" -> [v EXCEPT !.ok = FALSE]
         [] st.op = "import" ->
              IF ResolveHost(Head(st.res)).found THEN InPlace(v, file, pc + 1)
              ELSE [v EXCEPT !.ok = FALSE]
         [] OTHER ->
              LET g == NamedFile([isPath |-> st.isPath, segs |-> st.res], FS[file].dir)
              IN  IF g = NoFile \/ ~FS[g].readable THEN [v EXCEPT !.ok = FALSE]
                  ELSE InPlace(InPlace(v, g, 1), file, pc + 1)

\* inl after one more include(res) into the caller's namespace
InPlaceCall(res, sarg) ==
  LET g == NamedFile(res, MainDir)
  IN  IF g = NoFile \/ ~FS[g].readable \/ sarg # NoNs THEN [inl EXCEPT !.ok = FALSE]
      ELSE InPlace(inl, g, 1)

\* Fragments made of plain bindings, and the value such a fragment gives a name.
Straight(file) == \A i \in 1..Len(FS[file].code) : FS[file].code[i].op = "bind"
Binds(file)    == {FS[file].code[i].name : i \in 1..Len(FS[file].code)}
ValueOf(file, x) == InPlace([ok |-> TRUE, vars |-> EmptyVars], file, 1).vars[x]

\* ------------------------------------------------------------ the root file
Resources ==
  {Res(RA), Res(RB), Res(RN), Res(RM), Res(RBad), Res(RExit), Res(RLocked), Res(RMissing),
   PathObj(ROs), Res(ROsPy), Res(RPkgC), Res(RPkgMiss), Res(RNoDir), Res(RDotC),
   Res(RDotMiss), Res(RU), Res(RDotU), Res(RDotX)}

\* include(resource, scope=..., optional=...) written in the root file; an
\* exception that reaches the root file ends it.
Call(res, opt, sarg) ==
  /\ stack = <<>> /\ exc = NoExc /\ calls < MaxCalls
  /\ stack' = <<IncludeFrame(res, opt, sarg, Main, MainFile)>>
  /\ calls' = calls + 1
  /\ obs' = [res |-> res, opt |-> opt, sarg |-> sarg, ns |-> ns,
             prev |-> IF obs.sarg = NoNs THEN obs.res ELSE Res(<<>>)]
  /\ inl' = InPlaceCall(res, sarg)
  /\ UNCHANGED <<ns, modules, loaders, meta_path, path_hooks, sys_path, cwd, exc, nhooks>>

Next ==
  \/ \E res \in Resources, opt \in BOOLEAN, sarg \in {NoNs, Dict} : Call(res, opt, sarg)
  \/ IncludeStart
  \/ IncludeParentDone
  \/ IncludeReturn
  \/ IncludeFail
  \/ ImportStep
  \/ ImportFail
  \/ ExecEnter
  \/ ExecStmt
  \/ ExecExit
  \/ ExecFail

Spec == Init /\ [][Next]_vars

\* ---------------------------------------------------------------- accessors
\* set_default(), is_defined() and get() read and write the globals of the
\* file that calls them (sys._getframe(1).f_globals); here the root file.
None     == "<None>"                   \* the null value
NotGiven == "<_NotGiven>"              \* the class _NotGiven: no default supplied
Bound    == {None, "3"}                \* values a name of the root file may hold
Defaults == {None, "5"}                \* values passed as default
AccessorNames == {"X", "Y"}

\* if var_name not in scope or set_if_none and scope[var_name] is None:
\*     scope[var_name] = default
SetDefaultIfUnbound(scope, var_name, default, set_if_none) ==
  IF scope.vars[var_name] = Unbound
  THEN [scope EXCEPT !.vars[var_name] = default] ELSE scope
SetDefaultNs(scope, var_name, default, set_if_none) ==
  IF scope.vars[var_name] = Unbound \/ (set_if_none /\ scope.vars[var_name] = None)
  THEN [scope EXCEPT !.vars[var_name] = default] ELSE scope

\* f_globals.get(var_name, default)
DictGetOr(scope, var_name, default) ==
  IF scope.vars[var_name] \in {Unbound, None} THEN default ELSE scope.vars[var_name]
DictGet(scope, var_name, default) ==
  IF scope.vars[var_name] # Unbound THEN scope.vars[var_name] ELSE default

NoCall == [op |-> "none", name |-> "", default |-> NotGiven, set_if_none |-> FALSE,
           ns |-> MainNs, ret |-> Unbound]

AccessorInit ==
  /\ \E x \in Bound \cup {Unbound}, y \in Bound \cup {Unbound} :
       ns = (Main :> [MainNs EXCEPT !.vars["X"] = x, !.vars["Y"] = y])
  /\ modules = (Main :> HostModule(NoDir))
  /\ loaders = <<>>
  /\ meta_path = <<PathFinderEntry>>
  /\ path_hooks = <<DefaultHook>>
  /\ sys_path = <<"root", "lib">>
  /\ cwd = "root"
  /\ stack = <<>>
  /\ exc = NoExc
  /\ calls = 0
  /\ nhooks = 0
  /\ obs = NoCall
  /\ inl = [ok |-> TRUE, vars |-> MainNs.vars]

\* set_default(var_name, default, set_if_none): returns scope[var_name]
SetDefault(var_name, default, set_if_none) ==
  /\ stack = <<>> /\ exc = NoExc /\ calls < MaxCalls
  /\ ns' = [ns EXCEPT ![Main] = SetDefaultNs(ns[Main], var_name, default, set_if_none)]
  /\ obs' = [op |-> "set_default", name |-> var_name, default |-> default,
             set_if_none |-> set_if_none, ns |-> ns[Main],
             ret |-> ns'[Main].vars[var_name]]
  /\ calls' = calls + 1
  /\ UNCHANGED <<modules, loaders, meta_path, path_hooks, sys_path, cwd, stack, exc, nhooks, inl>>

\* is_defined(var_name): var_name in f_globals
IsDefined(var_name) ==
  /\ stack = <<>> /\ exc = NoExc /\ calls < MaxCalls
  /\ obs' = [op |-> "is_defined", name |-> var_name, default |-> NotGiven,
             set_if_none |-> FALSE, ns |-> ns[Main],
             ret |-> (ns[Main].vars[var_name] # Unbound)]
  /\ calls' = calls + 1
  /\ UNCHANGED <<ns, modules, loaders, meta_path, path_hooks, sys_path, cwd, stack, exc, nhooks, inl>>

\* get(var_name, default=_NotGiven): the value, or NameError when the lookup
\* yields the class _NotGiven; an exception ends the root file.
Get(var_name, default) ==
  /\ stack = <<>> /\ exc = NoExc /\ calls < MaxCalls
  /\ LET value == DictGet(ns[Main], var_name, default)
     IN  /\ exc' = IF value = NotGiven THEN "NameError" ELSE NoExc
         /\ obs' = [op |-> "get", name |-> var_name, default |-> default,
                    set_if_none |-> FALSE, ns |-> ns[Main],
                    ret |-> IF value = NotGiven THEN Unbound ELSE value]
  /\ calls' = calls + 1
  /\ UNCHANGED <<ns, modules, loaders, meta_path, path_hooks, sys_path, cwd, stack, nhooks, inl>>

AccessorNext ==
  \/ \E n \in AccessorNames, d \in Defaults, s \in BOOLEAN : SetDefault(n, d, s)
  \/ \E n \in AccessorNames : IsDefined(n)
  \/ \E n \in AccessorNames, d \in Defaults \cup {NotGiven} : Get(n, d)

AccessorSpec == AccessorInit /\ [][AccessorNext]_vars


\* =================================================================== claims
Idle == stack = <<>>
\* an include() call hands control back to its caller, no exception raised
ReturnsNormally == TopIs("include") /\ exc = NoExc /\ exc' = NoExc /\ stack' = Rest
\* a readable file of plain bindings
Fragment(g) == g # NoFile /\ FS[g].readable /\ Straight(g)
\* the directory of the file that contains the include() call on top
CallerDir == IF Len(stack) = 1 THEN MainDir ELSE FS[stack[Len(stack) - 1].file].dir

\* C1: fragments included one after the other into the root file's namespace
\* leave it as running their concatenated text in place would.
C1_InPlaceEquivalence ==
  (Idle /\ exc = NoExc /\ calls >= 1 /\ inl.ok) => ns[Main].vars = inl.vars

\* C2: when include() returns without error, every name the fragment binds
\* holds the fragment's value in the scope (stated for fragments of plain
\* bindings included into the caller's namespace).
C2_BindingsPresentOnReturn ==
  [][ LET g == NamedFile(Top.res, CallerDir)
      IN  (ReturnsNormally /\ Top.sarg = NoNs /\ Fragment(g))
          => \A x \in Binds(g) : ns'[Top.cns].vars[x] = ValueOf(g, x) ]_vars

\* C3: the root file includes A and then B, two different fragments binding
\* the same name: the name ends with B's value.
C3_LastWriteWins ==
  (Idle /\ exc = NoExc /\ calls >= 2 /\ obs.sarg = NoNs /\ obs.prev.segs # <<>>) =>
    LET a == NamedFile(obs.prev, MainDir)
        b == NamedFile(obs.res, MainDir)
    IN  (Fragment(a) /\ Fragment(b) /\ a # b)
        => \A x \in Binds(a) \cap Binds(b) : ns[Main].vars[x] = ValueOf(b, x)


\* C4: when an include() call hands control back, on any exit path, the
\* import chain is as the call found it.
Count(s, x) == Cardinality({i \in 1..Len(s) : s[i] = x})
SameEntries(s, t) ==
  \A x \in {s[i] : i \in 1..Len(s)} \cup {t[i] : i \in 1..Len(t)} : Count(s, x) = Count(t, x)
C4_HooksRemovedOnEveryExit ==
  [][ (TopIs("include") /\ stack' = Rest)
      => /\ meta_path' = Top.preMeta
         /\ path_hooks' = Top.preHooks
         /\ SameEntries(sys_path', Top.prePath) ]_vars

\* C5: the sessions on sys.meta_path are the open with-blocks of the include()
\* calls on the stack, innermost first, ahead of the host's finder; a session
\* is installed in front, only the front session is removed, by the innermost
\* call that holds it, and an identity is never installed twice.
RECURSIVE OpenSessions(_)
OpenSessions(stk) ==
  IF stk = <<>> THEN <<>>
  ELSE OpenSessions(Tail(stk)) \o
       (IF Head(stk).k = "include" /\ Head(stk).ph = "target" THEN <<Head(stk).fid>> ELSE <<>>)
Ids(s) == [i \in 1..Len(s) |-> s[i].id]
SessionsMatchNesting == Ids(meta_path) = OpenSessions(stack) \o <<PathFinderEntry.id>>
SessionStep ==
  /\ Len(meta_path') < Len(meta_path)
       => /\ TopIs("include") /\ Head(meta_path).id = Top.fid
          /\ meta_path' = Tail(meta_path)
          /\ stack' = Rest
  /\ Len(meta_path') > Len(meta_path)
       => /\ Tail(meta_path') = meta_path
          /\ \A i \in 1..Len(loaders) : Head(meta_path').id > i
  /\ Len(meta_path') = Len(meta_path) => meta_path' = meta_path
C5_SessionsLifo == [](SessionsMatchNesting) /\ [][SessionStep]_vars
C5_Witness ==
  /\ Len(OpenSessions(stack)) >= 2
  /\ exc # NoExc

\* C6: optional include of a path that names no file raises nothing and
\* leaves the bindings of every scope as they were.
MissingPath(res) == IsPathStyle(res) /\ NamedFile(res, MainDir) = NoFile
C6_OptionalMissingIsNoOp ==
  (Idle /\ calls >= 1 /\ obs.opt /\ MissingPath(obs.res))
    => /\ exc = NoExc
       /\ ns[Main].vars = obs.ns[Main].vars
       /\ ns[Dict].vars = obs.ns[Dict].vars

\* C7: without optional, an exception passes through include() unchanged, and
\* including a path that names no file ends with a not-found or load error.
C7_NonOptionalPropagates ==
  /\ [][ (TopIs("include") /\ ~Top.opt /\ exc # NoExc) => (exc' = exc /\ stack' = Rest) ]_vars
  /\ []((Idle /\ calls >= 1 /\ ~obs.opt /\ MissingPath(obs.res))
          => exc \in {"ModuleNotFoundError", "OSError"})

\* C8 as stated: with optional=True every exception, of any class, is
\* swallowed by include().
C8_OptionalSwallowsAll ==
  [][ (TopIs("include") /\ Top.opt /\ exc # NoExc) => (exc' = NoExc /\ stack' = Rest) ]_vars
\* C8 amended: with optional=True every exception whose class derives from
\* Exception is swallowed by include(), which returns normally; an exception
\* deriving from BaseException only passes through.
C8_OptionalSwallowsExceptions ==
  /\ [][ (TopIs("include") /\ Top.opt /\ exc # NoExc)
          => /\ stack' = Rest
             /\ exc' = IF exc \in ExceptionKinds THEN NoExc ELSE exc ]_vars
  /\ []((Idle /\ calls >= 1 /\ obs.opt) => exc \notin ExceptionKinds)
C8_Witness ==
  /\ Idle /\ exc = NoExc /\ obs.opt /\ obs.res = Res(RBad)
  /\ ns[Main].vars["X"] = "bad"

\* C9: with a mapping supplied as scope, the caller's own namespace is left
\* alone and the fragment's bindings are in the supplied mapping.
C9_SuppliedScopeUsed ==
  LET g == NamedFile(obs.res, MainDir)
  IN  (Idle /\ exc = NoExc /\ calls >= 1 /\ obs.sarg = Dict /\ Fragment(g)
         /\ IsPathStyle(obs.res) /\ PathParent(obs.res) = <<>>)
        => /\ ns[Main] = obs.ns[Main]
           /\ \A x \in Binds(g) : ns[Dict].vars[x] = ValueOf(g, x)

\* C10: the statement after a nested include() runs with the nested
\* fragment's bindings in the scope.
C10_NestedCompletesFirst ==
  (TopIs("exec") /\ exc = NoExc /\ Top.pc > 1 /\ Top.pc <= Len(FS[Top.file].code) + 1
     /\ FS[Top.file].code[Top.pc - 1].op = "include")
    => LET st == FS[Top.file].code[Top.pc - 1]
           g  == NamedFile([isPath |-> st.isPath, segs |-> st.res], FS[Top.file].dir)
       IN  Fragment(g) => \A x \in Binds(g) : ns[Top.tns].vars[x] = ValueOf(g, x)

\* C11: set_default(name, default, set_if_none) binds name to default when it
\* is unbound, or bound to None with set_if_none true; otherwise name keeps its
\* value (None included).  It returns the value name holds afterwards, raises
\* nothing and changes no other name.
C11_SetDefaultContract ==
  (obs.op = "set_default") =>
    LET old == obs.ns.vars[obs.name]
        new == ns[Main].vars[obs.name]
    IN  /\ old = Unbound => new = obs.default
        /\ old \notin {Unbound, None} => new = old
        /\ (old = None /\ obs.set_if_none) => new = obs.default
        /\ (old = None /\ ~obs.set_if_none) => new = None
        /\ obs.ret = new
        /\ exc = NoExc
        /\ \A x \in Names \ {obs.name} : ns[Main].vars[x] = obs.ns.vars[x]
C11_Witness ==
  /\ obs.op = "set_default" /\ obs.set_if_none
  /\ obs.ns.vars[obs.name] = None /\ obs.default = "5"
  /\ ns[Main].vars[obs.name] = "5" /\ obs.ret = "5"

C13_AncestorLoaderRestored ==
  [][ (TopIs("include") /\ stack' = Rest /\ Top.mod # <<>> /\ Top.mod \in DOMAIN modules')
      => /\ modules'[Top.mod].specLoader = Top.saved
         /\ modules'[Top.mod].loader = Top.was ]_vars

\* C14: an import statement of a fragment that is being executed by a loader
\* whose is_loading flag is true is answered by the host's chain: the module
\* is executed by its own loader into its own namespace, not by a
\* SplitModuleLoader into the scope.
Below == stack[Len(stack) - 1]
FragmentImports ==
  /\ TopIs("import") /\ Len(stack) > 1 /\ Below.k = "exec"
  /\ Below.ld # HostLoader /\ loaders[Below.ld].is_loading
C14_NoInterceptionWhileLoading ==
  [][ (FragmentImports /\ Len(stack') = Len(stack) + 1)
      => /\ stack'[Len(stack')].ld = HostLoader
         /\ stack'[Len(stack')].tns = Top.name ]_vars

\* C15: an entry recorded in a scope's include history stays there: at every
\* step the history a scope had is a prefix of the history it has afterwards.
IsPrefix(s, t) == Len(s) <= Len(t) /\ SubSeq(t, 1, Len(s)) = s
C15_HistoryNeverLost ==
  [][ \A n \in {Main, Dict} :
        ns[n].hasFiles => (ns'[n].hasFiles /\ IsPrefix(ns[n].files, ns'[n].files)) ]_vars

\* C16: include() of a reference whose module is already in sys.modules
\* executes nothing and changes the scope in the module's public names only:
\* they take the module's values, and the underscore names of every scope
\* (__file__, the include history) stay as they were.
Public == {x \in Names : x # "__file__"}
Memoized ==
  /\ TopIs("include") /\ Top.ph = "start" /\ exc = NoExc
  /\ (IF IsPathStyle(Top.res) THEN PathModKey(Top.res) ELSE DottedName(Top.res)) \in DOMAIN modules
C16_MemoizationMergesPublicOnly ==
  [][ Memoized =>
        LET key == IF IsPathStyle(Top.res) THEN PathModKey(Top.res) ELSE DottedName(Top.res)
        IN  /\ stack' = Rest /\ exc' = NoExc
            /\ \A x \in Public :
                 ns'[ScopeOf(Top)].vars[x] =
                   IF ns[key].vars[x] # Unbound THEN ns[key].vars[x] ELSE ns[ScopeOf(Top)].vars[x]
            /\ \A n \in {Main, Dict} :
                 /\ ns'[n].vars["__file__"] = ns[n].vars["__file__"]
                 /\ ns'[n].files = ns[n].files /\ ns'[n].hasFiles = ns[n].hasFiles ]_vars

\* C17: a path-style include() written in a fragment resolves its path
\* against the directory of that fragment's file, at every nesting depth.
C17_RelativeToIncludingFile ==
  \A i \in 2..Len(stack) :
    (stack[i].k = "include" /\ IsPathStyle(stack[i].res) /\ stack[i - 1].k = "exec")
      => ResolveDir(RootOf(stack[i])) = FS[stack[i - 1].file].dir

\* C18: no rollback under optional=True.  When a statement of a fragment that
\* include(..., optional=True) is executing fails with an exception deriving
\* from Exception, the failing step and every step that unwinds the exception
\* leave the scopes as they are, include() swallows the exception, and after
\* the call the scope is the scope from before the call with the bindings of
\* the statements ahead of the failing one applied.
RECURSIVE ApplyBinds(_, _, _)
ApplyBinds(v, code, k) ==
  IF k = 0 THEN v ELSE [ApplyBinds(v, code, k - 1) EXCEPT ![code[k].name] = code[k].val]
FailsAt(g, k) ==
  /\ g # NoFile /\ FS[g].readable /\ k \in 1..Len(FS[g].code)
  /\ FS[g].code[k].op = "raise" /\ FS[g].code[k].val \in ExceptionKinds
  /\ \A j \in 1..(k - 1) : FS[g].code[j].op = "bind"
Scopes == {Main, Dict}
Evaluating(id) ==
  \E i \in 1..Len(stack) : stack[i].k = "exec" /\ stack[i].ld = id /\ stack[i].pc >= 1
C19_IsLoadingExactlyDuringExec ==
  \A id \in 1..Len(loaders) : loaders[id].is_loading <=> Evaluating(id)

\* C20: when a path-style include() of a multi-segment path returns normally,
\* sys.path and sys.path_hooks are the sequences they were when it was called.
C20_SysPathSameSequence ==
  [][ (ReturnsNormally /\ IsPathStyle(Top.res) /\ Len(Parts(Top.res)) > 1)
      => /\ sys_path' = Top.prePath
         /\ path_hooks' = Top.preHooks ]_vars

====
